---------------------------- MODULE Spec2Model ----------------------------
(***************************************************************************)
(* DegreeVerify_create_upload_file.py: the batch job that reads degree     *)
(* awards and their ancillary tables, assembles one record per award       *)
(* (create_DV_df) and writes the fixed-width DegreeVerify file: a DH1      *)
(* header line, the DD1 data lines and a DT1 trailer line (write_fw).      *)
(*                                                                         *)
(* Text is a sequence of one-character strings, so that len(), slicing,    *)
(* ljust(), startswith() and the "in" test are computed as Python computes *)
(* them.  A data frame is a sequence of rows; a row is a function from     *)
(* column names (text) to cell values (text, or NaN for a missing value).  *)
(***************************************************************************)
EXTENDS Integers, Sequences, FiniteSets, TLC

VARIABLES
    db,     \* the tables pc.select reads, and the command line
    pc,     \* the statement of main() or create_DV_df() that runs next
    frames, \* create_DV_df's locals: the frames the readers returned
    df,     \* main's df: the frame create_DV_df returned
    file,   \* the lines of the output text file f'{base_fn}.txt'
    lw,     \* main's lw: the value the last write_DV_* call returned
    fw      \* the running write_fw call: its arguments and locals

vars == <<db, pc, frames, df, file, lw, fw>>

(***************************************************************************)
(* Text                                                                    *)
(***************************************************************************)

\* pandas' missing value (NaN, NaT, None): not a text, len() of it raises
NaN == <<"NaN">>

IsNa(v) == v = NaN

\* the characters of the model's texts in code-point order
Alphabet ==
    <<"\n", " ", "'", ",", "-", ".", "/",
      "0", "1", "2", "3", "4", "5", "6", "7", "8", "9",
      "A", "B", "C", "D", "E", "F", "G", "H", "I", "J", "K", "L", "M",
      "N", "O", "P", "Q", "R", "S", "T", "U", "V", "W", "X", "Y", "Z",
      "a", "b", "c", "d", "e", "f", "g", "h", "i", "j", "k", "l", "m",
      "n", "o", "p", "q", "r", "s", "t", "u", "v", "w", "x", "y", "z">>

ord(ch) == CHOOSE i \in 1..Len(Alphabet) : Alphabet[i] = ch

\* Python's a < b on str, from position k on: lexicographic by code point
RECURSIVE StrLessFrom(_, _, _)
StrLessFrom(a, b, k) ==
    IF k > Len(b) THEN FALSE
    ELSE IF k > Len(a) THEN TRUE
    ELSE IF a[k] = b[k] THEN StrLessFrom(a, b, k + 1)
    ELSE ord(a[k]) < ord(b[k])

StrLess(a, b) == StrLessFrom(a, b, 1)

\* Python's needle in s
StrIn(needle, s) ==
    \E i \in 1..(Len(s) - Len(needle) + 1) :
        SubSeq(s, i, i + Len(needle) - 1) = needle

\* s.startswith(prefix)
startswith(s, prefix) ==
    Len(s) >= Len(prefix) /\ SubSeq(s, 1, Len(prefix)) = prefix

\* s[:n] for n >= 0
Slice(s, n) == SubSeq(s, 1, IF n < Len(s) THEN n ELSE Len(s))

\* s.ljust(n): s itself when it is already n long or longer
ljust(s, n) ==
    IF Len(s) >= n THEN s
    ELSE [i \in 1..n |-> IF i <= Len(s) THEN s[i] ELSE " "]

\* s.replace(old, new): every occurrence of old, left to right, becomes new
RECURSIVE StrReplace(_, _, _)
StrReplace(s, old, new) ==
    IF s = <<>> THEN <<>>
    ELSE IF startswith(s, old)
         THEN new \o StrReplace(SubSeq(s, Len(old) + 1, Len(s)), old, new)
         ELSE <<Head(s)>> \o StrReplace(Tail(s), old, new)

Digits == <<"0", "1", "2", "3", "4", "5", "6", "7", "8", "9">>

\* str(n) for an int n >= 0
RECURSIVE str(_)
str(n) ==
    IF n < 10 THEN <<Digits[n + 1]>>
    ELSE str(n \div 10) \o <<Digits[(n % 10) + 1]>>

\* the decimal number n written in exactly w digits (strftime's %Y, %m, %d)
ZeroPad(n, w) ==
    LET t == str(n)
    IN  [i \in 1..(w - Len(t)) |-> "0"] \o t

\* dt.strftime('%Y%m%d') of a date <<year, month, day>>; NaT gives NaN
strftime(d) ==
    IF IsNa(d) THEN NaN
    ELSE ZeroPad(d[1], 4) \o ZeroPad(d[2], 2) \o ZeroPad(d[3], 2)

\* d1 <= d2 on dates <<year, month, day>>
DateLeq(d1, d2) ==
    \/ d1[1] < d2[1]
    \/ d1[1] = d2[1] /\ d1[2] < d2[2]
    \/ d1[1] = d2[1] /\ d1[2] = d2[2] /\ d1[3] <= d2[3]

(***************************************************************************)
(* Data frames                                                             *)
(***************************************************************************)

\* the k-th smallest member of a set of row positions
Nth(idx, k) == CHOOSE i \in idx : Cardinality({j \in idx : j < i}) = k - 1

\* the rows of frame at the positions idx, in their order
RowsAt(frame, idx) ==
    [k \in 1..Cardinality(idx) |-> frame[Nth(idx, k)]]

\* a < b on tuples of texts of one length, lexicographic
RECURSIVE KeyLessFrom(_, _, _)
KeyLessFrom(a, b, k) ==
    IF k > Len(a) THEN FALSE
    ELSE IF a[k] = b[k] THEN KeyLessFrom(a, b, k + 1)
    ELSE StrLess(a[k], b[k])

KeyLess(a, b) == KeyLessFrom(a, b, 1)

\* a sort column and the type of its values
Text(c) == <<c, "text">>
Date(c) == <<c, "date">>
Year(c) == <<c, "year">>

\* the text of a date column in a sort key: NaT sorts last
DateKey(d) == IF IsNa(d) THEN <<"9","9","9","9","9","9","9","9">> ELSE strftime(d)

\* the tuple of texts that orders a row as its values in the columns by do
SortKey(row, by) ==
    [k \in 1..Len(by) |->
        CASE by[k][2] = "date" -> DateKey(row[by[k][1]])
          [] by[k][2] = "year" -> ZeroPad(row[by[k][1]], 4)
          [] OTHER -> row[by[k][1]]]

\* frame.sort_values(by): a stable sort on the columns by
sort_values(frame, by) ==
    LET n == Len(frame)
        keys == [i \in 1..n |-> SortKey(frame[i], by)]
        before == [i \in 1..n |->
                      Cardinality({j \in 1..n :
                          \/ KeyLess(keys[j], keys[i])
                          \/ keys[j] = keys[i] /\ j < i})]
    IN  [k \in 1..n |-> frame[CHOOSE i \in 1..n : before[i] = k - 1]]

\* frame.drop_duplicates(subset, keep='last')
drop_duplicates_last(frame, subset) ==
    LET keys == [i \in 1..Len(frame) |-> [c \in subset |-> frame[i][c]]]
    IN  RowsAt(frame, {i \in 1..Len(frame) :
            \A j \in (i + 1)..Len(frame) : keys[j] # keys[i]})

\* frame.drop_duplicates(subset, keep='first')
drop_duplicates_first(frame, subset) ==
    LET keys == [i \in 1..Len(frame) |-> [c \in subset |-> frame[i][c]]]
    IN  RowsAt(frame, {i \in 1..Len(frame) :
            \A j \in 1..(i - 1) : keys[j] # keys[i]})

\* frame.drop(columns=cols)
drop(frame, cols) ==
    [i \in 1..Len(frame) |->
        [c \in (DOMAIN frame[i]) \ cols |-> frame[i][c]]]

\* frame[cols]
project(frame, cols) ==
    [i \in 1..Len(frame) |-> [c \in cols |-> frame[i][c]]]

\* frame[col] = value, in every row (the column is added when it is new)
assign(frame, col, value) ==
    [i \in 1..Len(frame) |-> (col :> value) @@ frame[i]]

\* frame[col] = frame[col].str.replace(old, new): NaN stays NaN
str_replace(frame, col, old, new) ==
    [i \in 1..Len(frame) |->
        [frame[i] EXCEPT ![col] = IF IsNa(@) THEN NaN ELSE StrReplace(@, old, new)]]

\* frame[col] = frame[col].dt.strftime('%Y%m%d')
dt_strftime(frame, col) ==
    [i \in 1..Len(frame) |-> [frame[i] EXCEPT ![col] = strftime(@)]]

\* a row of NaN in the columns cols
NaNRow(cols) == [c \in cols |-> NaN]

RECURSIVE Flatten(_)
Flatten(ss) == IF ss = <<>> THEN <<>> ELSE Head(ss) \o Flatten(Tail(ss))

\* left.merge(right, how='left', left_on=..., right_on=...): the rows of left
\* in their order, each once per row of right with the same values in the key
\* columns, or once with NaN in right's columns when there is none
merge_left(left, right, left_on, right_on, right_cols) ==
    Flatten([i \in 1..Len(left) |->
        LET hits == SelectSeq(right, LAMBDA r :
                        \A k \in 1..Len(left_on) :
                           left[i][left_on[k]] = r[right_on[k]])
        IN  IF hits = <<>> THEN <<left[i] @@ NaNRow(right_cols)>>
            ELSE [k \in 1..Len(hits) |-> left[i] @@ hits[k]]])

\* series.isin(values): False for NaN
isin(v, values) == ~IsNa(v) /\ v \in values

\* frame.loc[frame[by].isin(values), col] = value: the column is added,
\* holding NaN, when it is new, and set to value in the rows the mask holds of
loc_isin(frame, by, values, col, value) ==
    [i \in 1..Len(frame) |->
        IF isin(frame[i][by], values) THEN (col :> value) @@ frame[i]
        ELSE frame[i] @@ (col :> NaN)]

\* frame.loc[frame[by].str.startswith(prefix), col] = value
loc_startswith(frame, by, prefix, col, value) ==
    [i \in 1..Len(frame) |->
        IF startswith(frame[i][by], prefix) THEN (col :> value) @@ frame[i]
        ELSE frame[i] @@ (col :> NaN)]

\* frame.loc[frame[by].isna(), col] = value
loc_isna(frame, by, col, value) ==
    [i \in 1..Len(frame) |->
        IF IsNa(frame[i][by]) THEN (col :> value) @@ frame[i]
        ELSE frame[i] @@ (col :> NaN)]

\* frame[cols] = frame[cols].fillna(value)
fillna(frame, cols, value) ==
    [i \in 1..Len(frame) |->
        [c \in DOMAIN frame[i] |->
            IF c \in cols /\ IsNa(frame[i][c]) THEN value ELSE frame[i][c]]]

\* frame.rename(columns=names), names a function from old to new names
rename(frame, names) ==
    [i \in 1..Len(frame) |->
        LET new(c) == IF c \in DOMAIN names THEN names[c] ELSE c
        IN  [n \in {new(c) : c \in DOMAIN frame[i]} |->
                frame[i][CHOOSE c \in DOMAIN frame[i] : new(c) = n]]]

(***************************************************************************)
(* Source readers                                                          *)
(***************************************************************************)

\* np.datetime64 of a 'YYYY-MM-DD' text, as the date <<year, month, day>>
DigitValue(ch) == (CHOOSE i \in 1..10 : Digits[i] = ch) - 1

RECURSIVE int(_)
int(s) ==
    IF s = <<>> THEN 0
    ELSE 10 * int(SubSeq(s, 1, Len(s) - 1)) + DigitValue(s[Len(s)])

datetime64(s) == <<int(SubSeq(s, 1, 4)), int(SubSeq(s, 6, 7)), int(SubSeq(s, 9, 10))>>

\* lines 28-39: people_data
people_data ==
    LET selected ==
            SelectSeq(db.PEOPLE, LAMBDA r :
                /\ ~IsNa(r["BIRTH_DATE"])
                /\ r["BIRTH_DATE"] # <<1800, 1, 1>>
                /\ DateLeq(<<1800, 1, 1>>, r["BIRTH_DATE"])
                /\ r["BIRTH_DATE"] # <<2100, 12, 31>>
                /\ DateLeq(r["BIRTH_DATE"], <<2100, 12, 31>>))
        m == fillna(str_replace(selected, "MIDDLE_NAME", <<".">>, <<>>),
                    {"MIDDLE_NAME"}, <<" ">>)
        s == fillna(str_replace(m, "SUFFIX", <<".">>, <<>>), {"SUFFIX"}, <<" ">>)
    IN  str_replace(dt_strftime(s, "BIRTH_DATE"), "BIRTH_DATE", <<"1","9","0","0","0","1","0","1">>, <<" ">>)

\* the latest of a set of dates, NaN when the set is empty
MaxDate(ds) ==
    IF ds = {} THEN NaN ELSE CHOOSE d \in ds : \A e \in ds : DateLeq(e, d)

\* the earliest of a set of dates, NaN when the set is empty
MinDate(ds) ==
    IF ds = {} THEN NaN ELSE CHOOSE d \in ds : \A e \in ds : DateLeq(d, e)

\* the dates a column holds in the rows of a group (NaN skipped)
DatesOf(group, col) ==
    {group[i][col] : i \in {j \in 1..Len(group) : ~IsNa(group[j][col])}}

\* lines 46-61: academic_cal_data, one row per (year, term)
academic_cal_data ==
    LET terms == sort_values(
                    drop_duplicates_first(db.ACADEMICCALENDAR,
                        {"ACADEMIC_YEAR", "ACADEMIC_TERM"}),
                    <<Year("ACADEMIC_YEAR"), Text("ACADEMIC_TERM")>>)
    IN  [i \in 1..Len(terms) |->
            LET g == SelectSeq(db.ACADEMICCALENDAR, LAMBDA r :
                         /\ r["ACADEMIC_YEAR"] = terms[i]["ACADEMIC_YEAR"]
                         /\ r["ACADEMIC_TERM"] = terms[i]["ACADEMIC_TERM"])
            IN  ("ACADEMIC_YEAR" :> terms[i]["ACADEMIC_YEAR"]) @@
                ("ACADEMIC_TERM" :> terms[i]["ACADEMIC_TERM"]) @@
                ("START_DATE" :> MinDate(DatesOf(g, "START_DATE"))) @@
                ("END_DATE" :> MaxDate(DatesOf(g, "END_DATE")
                                     \cup DatesOf(g, "FINAL_END_DATE")))]

\* the sortable text of (year, term)
yearterm_sort(r) ==
    ZeroPad(r["ACADEMIC_YEAR"], 4) \o
    (IF r["ACADEMIC_TERM"] = <<"S","P","R","I","N","G">> THEN <<"1">>
     ELSE IF r["ACADEMIC_TERM"] = <<"S","U","M","M","E","R">> THEN <<"2">>
     ELSE IF r["ACADEMIC_TERM"] = <<"F","A","L","L">> THEN <<"3">>
     ELSE <<"4">>)

\* line 84: pc.add_col_yearterm_sort(df_a)
add_col_yearterm_sort(frame) ==
    [i \in 1..Len(frame) |->
        ("yearterm_sort" :> yearterm_sort(frame[i])) @@ frame[i]]

\* lines 75-130: academic_data, one row per student with the start date of
\* the first term and the end date of the last term
academic_data ==
    LET df_a == add_col_yearterm_sort(db.ACADEMIC)
        df_acal == academic_cal_data
        sorted == sort_values(df_a,
                      <<Text("PEOPLE_CODE_ID"), Text("yearterm_sort")>>)
        df_start == drop(merge_left(
                        drop_duplicates_first(sorted, {"PEOPLE_CODE_ID"}),
                        project(df_acal,
                            {"ACADEMIC_YEAR", "ACADEMIC_TERM", "START_DATE"}),
                        <<"ACADEMIC_YEAR", "ACADEMIC_TERM">>,
                        <<"ACADEMIC_YEAR", "ACADEMIC_TERM">>,
                        {"START_DATE"}),
                      {"ACADEMIC_YEAR", "ACADEMIC_TERM", "yearterm_sort"})
        df_end == drop(merge_left(
                        drop_duplicates_last(sorted, {"PEOPLE_CODE_ID"}),
                        project(df_acal,
                            {"ACADEMIC_YEAR", "ACADEMIC_TERM", "END_DATE"}),
                        <<"ACADEMIC_YEAR", "ACADEMIC_TERM">>,
                        <<"ACADEMIC_YEAR", "ACADEMIC_TERM">>,
                        {"END_DATE"}),
                      {"ACADEMIC_YEAR", "ACADEMIC_TERM", "yearterm_sort"})
        ids == sort_values(
                   drop_duplicates_first(project(df_a, {"PEOPLE_CODE_ID"}),
                       {"PEOPLE_CODE_ID"}),
                   <<Text("PEOPLE_CODE_ID")>>)
        joined == merge_left(
                      merge_left(ids, df_start, <<"PEOPLE_CODE_ID">>,
                                 <<"PEOPLE_CODE_ID">>, {"START_DATE"}),
                      df_end, <<"PEOPLE_CODE_ID">>, <<"PEOPLE_CODE_ID">>,
                      {"END_DATE"})
    IN  dt_strftime(dt_strftime(joined, "START_DATE"), "END_DATE")

\* lines 137-150: transcript_degree_data(start_date, end_date)
transcript_degree_data(start_date, end_date) ==
    LET selected ==
            SelectSeq(db.TRANSCRIPTDEGREE, LAMBDA r :
                /\ ~IsNa(r["GRADUATION_DATE"])
                /\ DateLeq(start_date, r["GRADUATION_DATE"])
                /\ DateLeq(r["GRADUATION_DATE"], end_date)
                /\ r["DEGREE"] # <<"N","O","N","D">>)
        df_td == drop(
                    drop_duplicates_last(
                        sort_values(selected,
                            <<Text("PEOPLE_CODE_ID"), Text("PROGRAM"),
                              Text("DEGREE"), Text("CURRICULUM"),
                              Date("GRADUATION_DATE")>>),
                        {"PEOPLE_CODE_ID", "PROGRAM", "DEGREE", "CURRICULUM",
                         "GRADUATION_DATE"}),
                    {"PROGRAM"})
    IN  dt_strftime(df_td, "GRADUATION_DATE")

\* lines 157-168: degree_mapping
degree_mapping ==
    LET df_dm == drop(
                    drop_duplicates_last(
                        sort_values(db.DegreeMappingNsc,
                            <<Year("AcademicYear"), Text("Curriculum")>>),
                        {"Curriculum"}),
                    {"AcademicYear", "AcademicTerm", "CipYear"})
    IN  str_replace(df_dm, "CipCode", <<".">>, <<>>)

\* lines 175-181: code_degree
code_degree ==
    sort_values(db.CODE_DEGREE, <<Text("CODE_VALUE_KEY")>>)

\* lines 188-198: transcript_honors
transcript_honors ==
    drop(drop_duplicates_last(
            sort_values(db.TRANSCRIPTHONORS,
                <<Text("PEOPLE_CODE_ID"), Text("PROGRAM"), Text("DEGREE"),
                  Text("CURRICULUM"), Text("HONORS")>>),
            {"PEOPLE_CODE_ID", "PROGRAM", "DEGREE", "CURRICULUM", "HONORS"}),
         {"PROGRAM"})

\* lines 205-227: people_formername(people_df)
people_formername(people_df) ==
    LET df_pfn ==
            drop(rename(
                    drop_duplicates_last(
                        sort_values(db.PEOPLEFORMERNAME,
                            <<Text("PEOPLE_CODE_ID"), Date("NAME_CHANGE_DATE")>>),
                        {"PEOPLE_CODE_ID"}),
                    ("FIRST_NAME" :> "Previous First Name") @@
                    ("LAST_NAME" :> "Previous Last Name")),
                 {"MIDDLE_NAME", "NAME_CHANGE_DATE"})
    IN  fillna(merge_left(people_df, df_pfn,
                   <<"PEOPLE_CODE_ID">>, <<"PEOPLE_CODE_ID">>,
                   {"Previous First Name", "Previous Last Name"}),
               {"Previous First Name", "Previous Last Name"}, <<" ">>)

\* lines 252-263: stoplist_data
stoplist_data ==
    LET selected ==
            SelectSeq(db.STOPLIST, LAMBDA r :
                /\ r["STOP_REASON"] \in {<<"B","U","R","S">>, <<"C","O","L","L">>, <<"S","T","A","C">>}
                /\ r["CLEARED"] = <<"N">>)
    IN  drop(drop_duplicates_last(
                sort_values(selected,
                    <<Text("PEOPLE_CODE_ID"), Date("STOP_DATE")>>),
                {"PEOPLE_CODE_ID"}),
             {"STOP_DATE", "CLEARED"})

(***************************************************************************)
(* Record assembler: minor_data and create_DV_df                           *)
(***************************************************************************)

\* line 241: "Minor Course of Study " + str(rank), for the ranks 1 to 4 kept
MinorCol(rank) ==
    <<"Minor Course of Study 1", "Minor Course of Study 2",
      "Minor Course of Study 3", "Minor Course of Study 4">>[rank]

\* a cut of the ranks one lower than line 240
rank_kept_to_3(rank) == rank <= 3

\* line 240: the ranks of the minors that stay, df_minor['rank']<=4
rank_kept(rank) == rank <= 4

\* lines 234-245: minor_data(df_td), one row per (student, graduation date)
\* that has a minor ranked 1 to 4, one column per rank that occurs
minor_data(df_td) ==
    LET df_minor ==
            drop_duplicates_last(
                sort_values(
                    SelectSeq(df_td, LAMBDA r : r["DEGREE"] = <<"M","I","N","O","R">>),
                    <<Text("PEOPLE_CODE_ID"), Text("GRADUATION_DATE")>>),
                {"PEOPLE_CODE_ID", "GRADUATION_DATE", "DEGREE", "CURRICULUM"})
        n == Len(df_minor)
        \* groupby("PEOPLE_CODE_ID")["GRADUATION_DATE"].rank(method="first")
        rank(i) ==
            1 + Cardinality({j \in 1..n :
                    /\ df_minor[j]["PEOPLE_CODE_ID"] = df_minor[i]["PEOPLE_CODE_ID"]
                    /\ \/ StrLess(df_minor[j]["GRADUATION_DATE"],
                                  df_minor[i]["GRADUATION_DATE"])
                       \/ /\ df_minor[j]["GRADUATION_DATE"]
                               = df_minor[i]["GRADUATION_DATE"]
                          /\ j < i})
        kept == {i \in 1..n : rank_kept(rank(i))}
        title(i) ==
            LET t == IF IsNa(df_minor[i]["FORMAL_TITLE"]) THEN NaN
                     ELSE StrReplace(df_minor[i]["FORMAL_TITLE"], <<" ","M","i","n","o","r">>, <<>>)
            IN  IF t = <<"M","i","n","o","r">> THEN <<>> ELSE t
        cols == {MinorCol(rank(i)) : i \in kept}
        index(i) == <<df_minor[i]["PEOPLE_CODE_ID"], df_minor[i]["GRADUATION_DATE"]>>
        firsts == {i \in kept : \A j \in kept : index(j) = index(i) => i <= j}
    IN  [k \in 1..Cardinality(firsts) |->
            LET g == Nth(firsts, k)
                cell(c) ==
                    LET hit == {i \in kept : index(i) = index(g)
                                              /\ MinorCol(rank(i)) = c}
                    IN  IF hit = {} THEN <<" ">>
                        ELSE LET v == title(CHOOSE i \in hit : TRUE)
                             IN  IF IsNa(v) THEN <<" ">> ELSE v
            IN  ("PEOPLE_CODE_ID" :> df_minor[g]["PEOPLE_CODE_ID"]) @@
                ("GRADUATION_DATE" :> df_minor[g]["GRADUATION_DATE"]) @@
                [c \in cols |-> cell(c)]]

\* the columns of a frame, read off its first row (none when it is empty)
Columns(frame) == IF frame = <<>> THEN {} ELSE DOMAIN frame[1]

\* lines 300-337: the chain of left merges on the degree rows
merge_all(df_td, df_a, df_p, df_minor, df_th, df_dm, df_code_degree, df_stoplist) ==
    LET m1 == merge_left(df_td, df_a, <<"PEOPLE_CODE_ID">>, <<"PEOPLE_CODE_ID">>,
                  {"START_DATE", "END_DATE"})
        m2 == merge_left(m1, df_p, <<"PEOPLE_CODE_ID">>, <<"PEOPLE_CODE_ID">>,
                  {"GOVERNMENT_ID", "FIRST_NAME", "MIDDLE_NAME", "LAST_NAME", "SUFFIX",
                   "BIRTH_DATE", "RELEASE_INFO",
                   "Previous First Name", "Previous Last Name"})
        m3 == merge_left(m2, df_minor,
                  <<"PEOPLE_CODE_ID", "GRADUATION_DATE">>,
                  <<"PEOPLE_CODE_ID", "GRADUATION_DATE">>,
                  Columns(df_minor) \ {"PEOPLE_CODE_ID", "GRADUATION_DATE"})
        m4 == merge_left(m3, df_th,
                  <<"PEOPLE_CODE_ID", "DEGREE", "CURRICULUM">>,
                  <<"PEOPLE_CODE_ID", "DEGREE", "CURRICULUM">>,
                  {"HONORS"})
        m5 == merge_left(m4, df_dm,
                  <<"DEGREE", "CURRICULUM">>, <<"Degree", "Curriculum">>,
                  {"Degree", "Curriculum", "CipCode"})
        m6 == merge_left(m5, df_code_degree,
                  <<"DEGREE">>, <<"CODE_VALUE_KEY">>,
                  {"CODE_VALUE_KEY", "LONG_DESC"})
    IN  merge_left(m6, df_stoplist, <<"PEOPLE_CODE_ID">>, <<"PEOPLE_CODE_ID">>,
                   {"STOP_REASON"})

\* lines 341-345
degree_level_indicator(frame) ==
    loc_isin(loc_isin(loc_isin(loc_isin(loc_isin(frame,
        "DEGREE", {<<"B","S">>, <<"B","A">>, <<"B","P","S">>}, "Degree Level Indicator", <<"B">>),
        "DEGREE", {<<"A","S">>, <<"A","A","S">>, <<"A","A">>, <<"A","O","S">>}, "Degree Level Indicator", <<"A">>),
        "DEGREE", {<<"M","S">>, <<"M","P","S">>}, "Degree Level Indicator", <<"M">>),
        "DEGREE", {<<"C","E","R","T","I","F">>}, "Degree Level Indicator", <<"C">>),
        "DEGREE", {<<"G","C","E","R","T">>}, "Degree Level Indicator", <<"T">>)

\* lines 346-349
honors_and_certificate(frame) ==
    loc_isin(loc_isin(loc_isin(loc_isin(frame,
        "HONORS", {<<"C","U","M">>}, "Academic Honors", <<"C","u","m"," ","L","a","u","d","e">>),
        "HONORS", {<<"M","A","G","N","A">>}, "Academic Honors", <<"M","a","g","n","a"," ","C","u","m"," ","L","a","u","d","e">>),
        "HONORS", {<<"S","U","M","M","A">>}, "Academic Honors", <<"S","u","m","m","a"," ","C","u","m"," ","L","a","u","d","e">>),
        "DEGREE", {<<"C","E","R","T","I","F">>}, "Certificate Type", <<"2">>)

\* lines 352-357
blocks(frame) ==
    loc_isin(assign(
        loc_isin(assign(frame, "FERPA Block", <<"N">>),
            "RELEASE_INFO", {<<"N","O","R","L">>}, "FERPA Block", <<"Y">>),
        "School Financial Block", <<"N">>),
        "STOP_REASON", {<<"B","U","R","S">>, <<"C","O","L","L">>, <<"S","T","A","C">>}, "School Financial Block", <<"Y">>)

\* lines 359-375
canonical_names ==
    ("GOVERNMENT_ID" :> "Student SSN") @@
    ("FIRST_NAME" :> "First Name") @@
    ("MIDDLE_NAME" :> "Middle Name") @@
    ("LAST_NAME" :> "Last Name") @@
    ("SUFFIX" :> "Name Suffix") @@
    ("BIRTH_DATE" :> "Date of Birth") @@
    ("PEOPLE_CODE_ID" :> "College Student ID") @@
    ("GRADUATION_DATE" :> "Date Degree, Credential, or Certificate Awarded") @@
    ("LONG_DESC" :> "Degree, Certificate, or Credential Title") @@
    ("FORMAL_TITLE" :> "Major Course of Study 1") @@
    ("START_DATE" :> "Attendance From Date") @@
    ("END_DATE" :> "Attendance To Date") @@
    ("CipCode" :> "NCES CIP Code for Major 1")

\* lines 377-417
unused_fields ==
    <<
        "School/College/Division Awarding Degree",
        "Joint Institution/College/School/Division Name",
        "Major Course of Study 2",
        "Major Course of Study 3",
        "Major Course of Study 4",
        "Minor Course of Study 1",
        "Minor Course of Study 2",
        "Minor Course of Study 3",
        "Minor Course of Study 4",
        "Major Option 1",
        "Major Option 2",
        "Major Concentration 1",
        "Major Concentration 2",
        "Major Concentration 3",
        "NCES CIP Code for Major 1",
        "NCES CIP Code for Major 2",
        "NCES CIP Code for Major 3",
        "NCES CIP Code for Major 4",
        "NCES CIP Code for Minor 1",
        "NCES CIP Code for Minor 2",
        "NCES CIP Code for Minor 3",
        "NCES CIP Code for Minor 4",
        "Honors Program",
        "Other Honors",
        "Name of Institution Granting Degree",
        "Reverse Transfer Flag",
        "Certificate Type",
        "Filler01",
        "Filler02",
        "Filler03",
        "Filler04",
        "Filler05",
        "Filler06",
        "Filler07",
        "Filler08",
        "Filler09",
        "Filler10",
        "Filler11",
        "Filler12"
    >>

\* lines 422-432
fill_list ==
    <<
        "Minor Course of Study 1",
        "Minor Course of Study 2",
        "Minor Course of Study 3",
        "Minor Course of Study 4",
        "Academic Honors",
        "Certificate Type",
        "NCES CIP Code for Major 1",
        "Attendance From Date",
        "Attendance To Date"
    >>

Range(s) == {s[i] : i \in 1..Len(s)}

\* lines 418-420: every field of unused_fields the frame lacks is added,
\* holding a single blank
add_unused_fields(frame) ==
    [i \in 1..Len(frame) |->
        frame[i] @@ [f \in Range(unused_fields) |-> <<" ">>]]

no_ssn_without_888(frame) ==
    loc_startswith(loc_startswith(frame,
        "Student SSN", <<"0","0","0">>, "Student SSN", <<"N","O"," ","S","S","N">>),
        "Student SSN", <<"9","9","9">>, "Student SSN", <<"N","O"," ","S","S","N">>)

\* lines 439-441: the "NO SSN" label
no_ssn(frame) ==
    loc_startswith(loc_startswith(loc_startswith(frame,
        "Student SSN", <<"0","0","0">>, "Student SSN", <<"N","O"," ","S","S","N">>),
        "Student SSN", <<"8","8","8">>, "Student SSN", <<"N","O"," ","S","S","N">>),
        "Student SSN", <<"9","9","9">>, "Student SSN", <<"N","O"," ","S","S","N">>)

\* lines 339-357: the record type and the coded fields
code_fields(merged) ==
    blocks(honors_and_certificate(degree_level_indicator(
        assign(merged, "Record Type", <<"D","D","1">>))))

\* lines 359-433: the canonical names, the unused fields, the blank fill
name_and_fill(coded) ==
    fillna(add_unused_fields(rename(coded, canonical_names)),
           Range(fill_list), <<" ">>)

\* line 436: the rows with a government ID
drop_missing_ssn(frame) ==
    SelectSeq(frame, LAMBDA r : ~IsNa(r["Student SSN"]))

\* line 444: the first name of a row that has none
fill_first_name(frame) ==
    loc_isna(frame, "First Name", "First Name", <<"N","F","N">>)

\* a sort by the SSN alone
sort_by_ssn(frame) == sort_values(frame, <<Text("Student SSN")>>)

\* line 446
sort_by_ssn_and_date(frame) ==
    sort_values(frame,
        <<Text("Student SSN"),
          Text("Date Degree, Credential, or Certificate Awarded")>>)

(***************************************************************************)
(* Fixed-width encoder: write_fw                                           *)
(***************************************************************************)

\* one item of a specs dictionary: 'column_name': [width, start, end]
Col(c, max_len, start, end) ==
    [c |-> c, max_len |-> max_len, start |-> start, end |-> end]

\* the characters of the column names the specs dictionaries use
ColumnText ==
    ("Record Type" :> <<"R","e","c","o","r","d"," ","T","y","p","e">>) @@
    ("School Code" :> <<"S","c","h","o","o","l"," ","C","o","d","e">>) @@
    ("Branch Code" :> <<"B","r","a","n","c","h"," ","C","o","d","e">>) @@
    ("Official School Name" :> <<"O","f","f","i","c","i","a","l"," ","S","c","h","o","o","l"," ","N","a","m","e">>) @@
    ("Filler01" :> <<"F","i","l","l","e","r","0","1">>) @@
    ("Standard Report Flag" :> <<"S","t","a","n","d","a","r","d"," ","R","e","p","o","r","t"," ","F","l","a","g">>) @@
    ("Transmission Date" :> <<"T","r","a","n","s","m","i","s","s","i","o","n"," ","D","a","t","e">>) @@
    ("Degree Period" :> <<"D","e","g","r","e","e"," ","P","e","r","i","o","d">>) @@
    ("Filler02" :> <<"F","i","l","l","e","r","0","2">>) @@
    ("Student SSN" :> <<"S","t","u","d","e","n","t"," ","S","S","N">>) @@
    ("First Name" :> <<"F","i","r","s","t"," ","N","a","m","e">>) @@
    ("Middle Name" :> <<"M","i","d","d","l","e"," ","N","a","m","e">>) @@
    ("Last Name" :> <<"L","a","s","t"," ","N","a","m","e">>) @@
    ("Name Suffix" :> <<"N","a","m","e"," ","S","u","f","f","i","x">>) @@
    ("Previous Last Name" :> <<"P","r","e","v","i","o","u","s"," ","L","a","s","t"," ","N","a","m","e">>) @@
    ("Previous First Name" :> <<"P","r","e","v","i","o","u","s"," ","F","i","r","s","t"," ","N","a","m","e">>) @@
    ("Date of Birth" :> <<"D","a","t","e"," ","o","f"," ","B","i","r","t","h">>) @@
    ("College Student ID" :> <<"C","o","l","l","e","g","e"," ","S","t","u","d","e","n","t"," ","I","D">>) @@
    ("Filler1" :> <<"F","i","l","l","e","r","1">>) @@
    ("Degree Level Indicator" :> <<"D","e","g","r","e","e"," ","L","e","v","e","l"," ","I","n","d","i","c","a","t","o","r">>) @@
    ("Degree, Certificate, or Credential Title" :> <<"D","e","g","r","e","e",","," ","C","e","r","t","i","f","i","c","a","t","e",","," ","o","r"," ","C","r","e","d","e","n","t","i","a","l"," ","T","i","t","l","e">>) @@
    ("School/College/Division Awarding Degree" :> <<"S","c","h","o","o","l","/","C","o","l","l","e","g","e","/","D","i","v","i","s","i","o","n"," ","A","w","a","r","d","i","n","g"," ","D","e","g","r","e","e">>) @@
    ("Joint Institution/College/School/Division Name" :> <<"J","o","i","n","t"," ","I","n","s","t","i","t","u","t","i","o","n","/","C","o","l","l","e","g","e","/","S","c","h","o","o","l","/","D","i","v","i","s","i","o","n"," ","N","a","m","e">>) @@
    ("Date Degree, Credential, or Certificate Awarded" :> <<"D","a","t","e"," ","D","e","g","r","e","e",","," ","C","r","e","d","e","n","t","i","a","l",","," ","o","r"," ","C","e","r","t","i","f","i","c","a","t","e"," ","A","w","a","r","d","e","d">>) @@
    ("Major Course of Study 1" :> <<"M","a","j","o","r"," ","C","o","u","r","s","e"," ","o","f"," ","S","t","u","d","y"," ","1">>) @@
    ("Major Course of Study 2" :> <<"M","a","j","o","r"," ","C","o","u","r","s","e"," ","o","f"," ","S","t","u","d","y"," ","2">>) @@
    ("Major Course of Study 3" :> <<"M","a","j","o","r"," ","C","o","u","r","s","e"," ","o","f"," ","S","t","u","d","y"," ","3">>) @@
    ("Major Course of Study 4" :> <<"M","a","j","o","r"," ","C","o","u","r","s","e"," ","o","f"," ","S","t","u","d","y"," ","4">>) @@
    ("Filler03" :> <<"F","i","l","l","e","r","0","3">>) @@
    ("Minor Course of Study 1" :> <<"M","i","n","o","r"," ","C","o","u","r","s","e"," ","o","f"," ","S","t","u","d","y"," ","1">>) @@
    ("Minor Course of Study 2" :> <<"M","i","n","o","r"," ","C","o","u","r","s","e"," ","o","f"," ","S","t","u","d","y"," ","2">>) @@
    ("Minor Course of Study 3" :> <<"M","i","n","o","r"," ","C","o","u","r","s","e"," ","o","f"," ","S","t","u","d","y"," ","3">>) @@
    ("Minor Course of Study 4" :> <<"M","i","n","o","r"," ","C","o","u","r","s","e"," ","o","f"," ","S","t","u","d","y"," ","4">>) @@
    ("Filler04" :> <<"F","i","l","l","e","r","0","4">>) @@
    ("Major Option 1" :> <<"M","a","j","o","r"," ","O","p","t","i","o","n"," ","1">>) @@
    ("Major Option 2" :> <<"M","a","j","o","r"," ","O","p","t","i","o","n"," ","2">>) @@
    ("Filler05" :> <<"F","i","l","l","e","r","0","5">>) @@
    ("Major Concentration 1" :> <<"M","a","j","o","r"," ","C","o","n","c","e","n","t","r","a","t","i","o","n"," ","1">>) @@
    ("Major Concentration 2" :> <<"M","a","j","o","r"," ","C","o","n","c","e","n","t","r","a","t","i","o","n"," ","2">>) @@
    ("Major Concentration 3" :> <<"M","a","j","o","r"," ","C","o","n","c","e","n","t","r","a","t","i","o","n"," ","3">>) @@
    ("Filler06" :> <<"F","i","l","l","e","r","0","6">>) @@
    ("NCES CIP Code for Major 1" :> <<"N","C","E","S"," ","C","I","P"," ","C","o","d","e"," ","f","o","r"," ","M","a","j","o","r"," ","1">>) @@
    ("NCES CIP Code for Major 2" :> <<"N","C","E","S"," ","C","I","P"," ","C","o","d","e"," ","f","o","r"," ","M","a","j","o","r"," ","2">>) @@
    ("NCES CIP Code for Major 3" :> <<"N","C","E","S"," ","C","I","P"," ","C","o","d","e"," ","f","o","r"," ","M","a","j","o","r"," ","3">>) @@
    ("NCES CIP Code for Major 4" :> <<"N","C","E","S"," ","C","I","P"," ","C","o","d","e"," ","f","o","r"," ","M","a","j","o","r"," ","4">>) @@
    ("Filler07" :> <<"F","i","l","l","e","r","0","7">>) @@
    ("NCES CIP Code for Minor 1" :> <<"N","C","E","S"," ","C","I","P"," ","C","o","d","e"," ","f","o","r"," ","M","i","n","o","r"," ","1">>) @@
    ("NCES CIP Code for Minor 2" :> <<"N","C","E","S"," ","C","I","P"," ","C","o","d","e"," ","f","o","r"," ","M","i","n","o","r"," ","2">>) @@
    ("NCES CIP Code for Minor 3" :> <<"N","C","E","S"," ","C","I","P"," ","C","o","d","e"," ","f","o","r"," ","M","i","n","o","r"," ","3">>) @@
    ("NCES CIP Code for Minor 4" :> <<"N","C","E","S"," ","C","I","P"," ","C","o","d","e"," ","f","o","r"," ","M","i","n","o","r"," ","4">>) @@
    ("Filler08" :> <<"F","i","l","l","e","r","0","8">>) @@
    ("Academic Honors" :> <<"A","c","a","d","e","m","i","c"," ","H","o","n","o","r","s">>) @@
    ("Filler09" :> <<"F","i","l","l","e","r","0","9">>) @@
    ("Honors Program" :> <<"H","o","n","o","r","s"," ","P","r","o","g","r","a","m">>) @@
    ("Filler10" :> <<"F","i","l","l","e","r","1","0">>) @@
    ("Other Honors" :> <<"O","t","h","e","r"," ","H","o","n","o","r","s">>) @@
    ("Attendance From Date" :> <<"A","t","t","e","n","d","a","n","c","e"," ","F","r","o","m"," ","D","a","t","e">>) @@
    ("Attendance To Date" :> <<"A","t","t","e","n","d","a","n","c","e"," ","T","o"," ","D","a","t","e">>) @@
    ("FERPA Block" :> <<"F","E","R","P","A"," ","B","l","o","c","k">>) @@
    ("School Financial Block" :> <<"S","c","h","o","o","l"," ","F","i","n","a","n","c","i","a","l"," ","B","l","o","c","k">>) @@
    ("Filler11" :> <<"F","i","l","l","e","r","1","1">>) @@
    ("Name of Institution Granting Degree" :> <<"N","a","m","e"," ","o","f"," ","I","n","s","t","i","t","u","t","i","o","n"," ","G","r","a","n","t","i","n","g"," ","D","e","g","r","e","e">>) @@
    ("Reverse Transfer Flag" :> <<"R","e","v","e","r","s","e"," ","T","r","a","n","s","f","e","r"," ","F","l","a","g">>) @@
    ("Certificate Type" :> <<"C","e","r","t","i","f","i","c","a","t","e"," ","T","y","p","e">>) @@
    ("Filler12" :> <<"F","i","l","l","e","r","1","2">>) @@
    ("Total Record Count" :> <<"T","o","t","a","l"," ","R","e","c","o","r","d"," ","C","o","u","n","t">>) @@
    ("Name" :> <<"N","a","m","e">>) @@
    ("Code" :> <<"C","o","d","e">>) @@
    ("filler" :> <<"f","i","l","l","e","r">>) @@
    ("Filler" :> <<"F","i","l","l","e","r">>) @@
    ("XFillerX" :> <<"X","F","i","l","l","e","r","X">>)

\* a column name as the text Python's "in" test reads
chars(c) == ColumnText[c]

Filler_reads_row(row, c) ==
    IF c \in DOMAIN row THEN row[c] ELSE <<" ">>

\* lines 476-479: the text of field c, a single blank for a filler
FieldValue(row, c) ==
    IF StrIn(<<"F","i","l","l","e","r">>, chars(c)) THEN <<" ">> ELSE row[c]

Encode_no_ljust(s, max_len) ==
    IF Len(s) > max_len THEN Slice(s, max_len) ELSE s

Encode_no_slice(s, max_len) ==
    IF Len(s) < max_len THEN ljust(s, max_len) ELSE s

\* lines 486-489: s cut or padded to max_len characters
Encode(s, max_len) ==
    IF Len(s) > max_len THEN Slice(s, max_len)
    ELSE IF Len(s) < max_len THEN ljust(s, max_len)
    ELSE s

FieldStep_no_check(row, v) ==
    [t |-> "text", s |-> Encode(FieldValue(row, v.c), v.max_len)]

\* lines 474-490, the loop body for one item v of specs: the text it adds to
\* line, or the way it leaves write_fw ("return0": the return 0 of line 485;
\* "raise": the KeyError of row[c] or the TypeError of len(s) on a NaN)
FieldStep(row, v) ==
    IF ~StrIn(<<"F","i","l","l","e","r">>, chars(v.c)) /\ v.c \notin DOMAIN row
    THEN [t |-> "raise", s |-> <<>>]
    ELSE IF (v.start + (v.max_len - 1)) # v.end
    THEN [t |-> "return0", s |-> <<>>]
    ELSE IF IsNa(FieldValue(row, v.c))
    THEN [t |-> "raise", s |-> <<>>]
    ELSE [t |-> "text", s |-> Encode(FieldValue(row, v.c), v.max_len)]

\* lines 473-490: the line of one row, built field by field in the order of
\* specs, unless a field leaves the function first
RECURSIVE BuildLine(_, _, _)
BuildLine(row, specs, line) ==
    IF specs = <<>> THEN [t |-> "text", s |-> line]
    ELSE LET r == FieldStep(row, Head(specs))
         IN  IF r.t # "text" THEN r
             ELSE BuildLine(row, Tail(specs), line \o r.s)

\* open(fpath, f_mode): 'w' truncates the file, 'a' keeps what it holds
OpenFile(content, f_mode) ==
    IF f_mode = "w" THEN <<>> ELSE content

Idle ==
    [st |-> "idle", f_mode |-> "a", rows |-> <<>>, specs |-> <<>>,
     lw |-> 0, cont |-> "done"]

\* a call write_fw(fpath, f_mode, df, specs) whose caller goes on at cont
Call(f_mode, rows, specs, cont) ==
    [st |-> "call", f_mode |-> f_mode, rows |-> rows, specs |-> specs,
     lw |-> 0, cont |-> cont]

\* line 468: with open(fpath, f_mode) as f; line 471: lw = 0
write_fw_open ==
    /\ fw.st = "call"
    /\ file' = OpenFile(file, fw.f_mode)
    /\ fw' = [fw EXCEPT !.st = "loop", !.lw = 0]
    /\ UNCHANGED <<db, pc, frames, df, lw>>

\* a file taken away when the block is left by an exception
removed_on_raise(content) == <<>>

\* line 468: the with block left by an exception closes the file, which
\* keeps the lines written so far
closed_on_raise(content) == content

\* lines 472-494: one pass of "for index, row in df.iterrows()"
write_fw_row ==
    /\ fw.st = "loop"
    /\ fw.rows # <<>>
    /\ LET r == BuildLine(Head(fw.rows), fw.specs, <<>>)
       IN  CASE r.t = "text" ->
                  /\ file' = Append(file, r.s \o <<"\n">>)
                  /\ fw' = [fw EXCEPT !.rows = Tail(@), !.lw = @ + 1]
                  /\ UNCHANGED <<pc, lw>>
             [] r.t = "return0" ->
                  /\ lw' = 0
                  /\ pc' = fw.cont
                  /\ fw' = Idle
                  /\ UNCHANGED file
             [] OTHER ->
                  /\ pc' = "failed"
                  /\ fw' = Idle
                  /\ file' = closed_on_raise(file)
                  /\ UNCHANGED lw
    /\ UNCHANGED <<db, frames, df>>

\* line 496: return lw, once the loop has run through df
write_fw_return ==
    /\ fw.st = "loop"
    /\ fw.rows = <<>>
    /\ lw' = fw.lw
    /\ pc' = fw.cont
    /\ fw' = Idle
    /\ UNCHANGED <<db, frames, df, file>>

(***************************************************************************)
(* File writer: header, data and trailer                                   *)
(***************************************************************************)

\* lines 515-525
dv_hdr_def ==
    <<
      Col("Record Type", 3, 1, 3),
      Col("School Code", 6, 4, 9),
      Col("Branch Code", 2, 10, 11),
      Col("Official School Name", 80, 12, 91),
      Col("Filler01", 15, 92, 106),
      Col("Standard Report Flag", 1, 107, 107),
      Col("Transmission Date", 8, 108, 115),
      Col("Degree Period", 80, 116, 195),
      Col("Filler02", 3645, 196, 3840)
    >>
    
\* lines 558-617
dv_col_def ==
    <<
      Col("Record Type", 3, 1, 3),
      Col("Student SSN", 9, 4, 12),
      Col("First Name", 40, 13, 52),
      Col("Middle Name", 40, 53, 92),
      Col("Last Name", 40, 93, 132),
      Col("Name Suffix", 5, 133, 137),
      Col("Previous Last Name", 40, 138, 177),
      Col("Previous First Name", 40, 178, 217),
      Col("Date of Birth", 8, 218, 225),
      Col("College Student ID", 20, 226, 245),
      Col("Filler1", 59, 246, 304),
      Col("Degree Level Indicator", 1, 305, 305),
      Col("Degree, Certificate, or Credential Title", 80, 306, 385),
      Col("School/College/Division Awarding Degree", 50, 386, 435),
      Col("Joint Institution/College/School/Division Name", 60, 436, 495),
      Col("Date Degree, Credential, or Certificate Awarded", 8, 496, 503),
      Col("Filler02", 80, 504, 583),
      Col("Major Course of Study 1", 80, 584, 663),
      Col("Major Course of Study 2", 80, 664, 743),
      Col("Major Course of Study 3", 80, 744, 823),
      Col("Major Course of Study 4", 80, 824, 903),
      Col("Filler03", 160, 904, 1063),
      Col("Minor Course of Study 1", 80, 1064, 1143),
      Col("Minor Course of Study 2", 80, 1144, 1223),
      Col("Minor Course of Study 3", 80, 1224, 1303),
      Col("Minor Course of Study 4", 80, 1304, 1383),
      Col("Filler04", 160, 1384, 1543),
      Col("Major Option 1", 80, 1544, 1623),
      Col("Major Option 2", 80, 1624, 1703),
      Col("Filler05", 160, 1704, 1863),
      Col("Major Concentration 1", 80, 1864, 1943),
      Col("Major Concentration 2", 80, 1944, 2023),
      Col("Major Concentration 3", 80, 2024, 2103),
      Col("Filler06", 280, 2104, 2383),
      Col("NCES CIP Code for Major 1", 6, 2384, 2389),
      Col("NCES CIP Code for Major 2", 6, 2390, 2395),
      Col("NCES CIP Code for Major 3", 6, 2396, 2401),
      Col("NCES CIP Code for Major 4", 6, 2402, 2407),
      Col("Filler07", 20, 2408, 2427),
      Col("NCES CIP Code for Minor 1", 6, 2428, 2433),
      Col("NCES CIP Code for Minor 2", 6, 2434, 2439),
      Col("NCES CIP Code for Minor 3", 6, 2440, 2445),
      Col("NCES CIP Code for Minor 4", 6, 2446, 2451),
      Col("Filler08", 120, 2452, 2571),
      Col("Academic Honors", 50, 2572, 2621),
      Col("Filler09", 196, 2622, 2817),
      Col("Honors Program", 50, 2818, 2867),
      Col("Filler10", 100, 2868, 2967),
      Col("Other Honors", 150, 2968, 3117),
      Col("Attendance From Date", 8, 3118, 3125),
      Col("Attendance To Date", 8, 3126, 3133),
      Col("FERPA Block", 1, 3134, 3134),
      Col("School Financial Block", 1, 3135, 3135),
      Col("Filler11", 100, 3136, 3235),
      Col("Name of Institution Granting Degree", 50, 3236, 3285),
      Col("Reverse Transfer Flag", 1, 3286, 3286),
      Col("Certificate Type", 1, 3287, 3287),
      Col("Filler12", 553, 3288, 3840)
    >>
    
\* lines 637-641
dv_tlr_def ==
    <<
      Col("Record Type", 3, 1, 3),
      Col("Total Record Count", 10, 4, 13),
      Col("Filler01", 3827, 14, 3840)
    >>

\* lines 527-538: the one row of hdr_df
header_data(transmission_date, degree_period) ==
    ("Record Type" :> <<"D","H","1">>) @@
    ("School Code" :> <<"0","0","2","7","9","5">>) @@
    ("Branch Code" :> <<"0","0">>) @@
    ("Official School Name" :> <<"P","A","U","L"," ","S","M","I","T","H","'","S"," ","C","O","L","L","E","G","E"," ","O","F"," ","T","H","E"," ","A","D","I","R","O","N","D","A","C","K","S">>) @@
    ("Filler01" :> <<" ">>) @@
    ("Standard Report Flag" :> <<"D">>) @@
    ("Transmission Date" :> transmission_date) @@
    ("Degree Period" :> degree_period) @@
    ("Filler02" :> <<" ">>)

total_record_count_plus_one(detail_record_count) == detail_record_count + 1

\* line 643
total_record_count(detail_record_count) == detail_record_count + 2

\* lines 645-650: the one row of tlr_df
trailer_data(detail_record_count) ==
    ("Record Type" :> <<"D","T","1">>) @@
    ("Total Record Count" :> str(total_record_count(detail_record_count))) @@
    ("Filler01" :> <<" ">>)

header_f_mode_append == "a"

\* line 540: write_fw(out_fn, 'w', hdr_df, dv_hdr_def)
header_f_mode == "w"

\* line 619: write_fw(out_fn, 'a', dv_df, dv_col_def)
data_f_mode == "a"

\* line 652: write_fw(out_fn, 'a', tlr_df, dv_tlr_def)
trailer_f_mode == "a"

\* line 662: f"Degree Completions {start_date_str} to {end_date_str}"
dataset_description(start_date_str, end_date_str) ==
    <<"D","e","g","r","e","e"," ","C","o","m","p","l","e","t","i","o","n","s"," ">> \o start_date_str \o <<" ","t","o"," ">> \o end_date_str

\* line 674: lw = write_DV_header(..., today.strftime("%Y%m%d"), dataset_description)
write_DV_header ==
    /\ pc = "header"
    /\ fw.st = "idle"
    /\ fw' = Call(header_f_mode,
                  <<header_data(strftime(db.today),
                                dataset_description(db.start_date_str,
                                                    db.end_date_str))>>,
                  dv_hdr_def, "data")
    /\ UNCHANGED <<db, pc, frames, df, file, lw>>

\* line 676: lw = write_DV_data(df, ...)
write_DV_data ==
    /\ pc = "data"
    /\ fw.st = "idle"
    /\ fw' = Call(data_f_mode, df, dv_col_def, "trailer")
    /\ UNCHANGED <<db, pc, frames, df, file, lw>>

\* line 678: lw = write_DV_trailer(..., lw)
write_DV_trailer ==
    /\ pc = "trailer"
    /\ fw.st = "idle"
    /\ fw' = Call(trailer_f_mode, <<trailer_data(lw)>>, dv_tlr_def, "done")
    /\ UNCHANGED <<db, pc, frames, df, file, lw>>

(***************************************************************************)
(* The tables the readers select from: rows and the bounded sets of tables *)
(* a run is checked on                                                     *)
(***************************************************************************)

PeopleRow(id, gov, first, middle, last, suffix, birth, release) ==
    ("PEOPLE_CODE_ID" :> id) @@ ("GOVERNMENT_ID" :> gov) @@
    ("FIRST_NAME" :> first) @@ ("MIDDLE_NAME" :> middle) @@
    ("LAST_NAME" :> last) @@ ("SUFFIX" :> suffix) @@
    ("BIRTH_DATE" :> birth) @@ ("RELEASE_INFO" :> release)

FormerNameRow(id, first, middle, last, changed) ==
    ("PEOPLE_CODE_ID" :> id) @@ ("FIRST_NAME" :> first) @@
    ("MIDDLE_NAME" :> middle) @@ ("LAST_NAME" :> last) @@
    ("NAME_CHANGE_DATE" :> changed)

AcademicRow(id, year, term) ==
    ("PEOPLE_CODE_ID" :> id) @@ ("ACADEMIC_YEAR" :> year) @@ ("ACADEMIC_TERM" :> term)

CalendarRow(year, term, start, end, final) ==
    ("ACADEMIC_YEAR" :> year) @@ ("ACADEMIC_TERM" :> term) @@
    ("START_DATE" :> start) @@ ("END_DATE" :> end) @@ ("FINAL_END_DATE" :> final)

DegreeRow(id, program, degree, curriculum, title, graduated) ==
    ("PEOPLE_CODE_ID" :> id) @@ ("PROGRAM" :> program) @@ ("DEGREE" :> degree) @@
    ("CURRICULUM" :> curriculum) @@ ("FORMAL_TITLE" :> title) @@
    ("GRADUATION_DATE" :> graduated)

HonorsRow(id, program, degree, curriculum, honors) ==
    ("PEOPLE_CODE_ID" :> id) @@ ("PROGRAM" :> program) @@ ("DEGREE" :> degree) @@
    ("CURRICULUM" :> curriculum) @@ ("HONORS" :> honors)

MappingRow(year, term, degree, curriculum, cip, cipyear) ==
    ("AcademicYear" :> year) @@ ("AcademicTerm" :> term) @@
    ("Degree" :> degree) @@ ("Curriculum" :> curriculum) @@
    ("CipCode" :> cip) @@ ("CipYear" :> cipyear)

CodeRow(key, desc) == ("CODE_VALUE_KEY" :> key) @@ ("LONG_DESC" :> desc)

StopRow(id, reason, date, cleared) ==
    ("PEOPLE_CODE_ID" :> id) @@ ("STOP_REASON" :> reason) @@
    ("STOP_DATE" :> date) @@ ("CLEARED" :> cleared)

\* every sequence of at most n members of S
SeqsUpTo(S, n) == UNION {[1..k -> S] : k \in 0..n}

\* the degree codes of lines 341-345, MINOR, NOND and two codes no rule names
DegreeCodes ==
    {<<"B","S">>, <<"B","A">>, <<"B","P","S">>, <<"A","S">>, <<"A","A","S">>, <<"A","A">>, <<"A","O","S">>, <<"M","S">>, <<"M","P","S">>, <<"C","E","R","T","I","F">>,
     <<"G","C","E","R","T">>, <<"M","I","N","O","R">>, <<"N","O","N","D">>, <<"P","H","D">>, <<"B","S","N">>}

\* government IDs: plain, the three placeholder prefixes, the prefixes
\* further in, a short one, one longer than the 9 columns of the field, none
GovernmentIds ==
    {<<"1","2","3","4","5","6","7","8","9">>, <<"0","0","0","1","2","3","4","5","6">>, <<"8","8","8","1","2","3","4","5","6">>, <<"9","9","9","1","2","3","4","5","6">>, <<"1","0","0","0","8","8","8","9","9">>,
     <<"9","9">>, <<"1","2","3","-","4","5","-","6","7","8","9">>, NaN}

\* a text of 81 characters, one more than the widest text field
LongTitle ==
    <<"B","a","c","h","e","l","o","r"," ","o","f"," ","S","c","i","e","n","c","e"," ","i","n"," ","N","a","t","u","r","a","l"," ","R","e","s","o","u","r","c","e","s"," ","C","o","n","s","e","r","v","a","t","i","o","n"," ","a","n","d"," ","M","a","n","a","g","e","m","e","n","t",","," ","w","i","t","h"," ","H","o","n","o","r","s">>

P1 == <<"P","0","0","0","0","0","0","0","0","1">>
P2 == <<"P","0","0","0","0","0","0","0","0","2">>
P3 == <<"P","0","0","0","0","0","0","0","0","3">>

InRange == <<2022, 5, 14>>

\* PEOPLE with every student on file: P2 has no first name and the unknown
\* birth date, P3 no birth date (the query leaves such a row out)
PeopleTable(gov1, gov2) ==
    <<PeopleRow(P1, gov1, <<"A","n","n">>, <<"M",".">>, <<"L","e","e">>, NaN, <<2000, 2, 29>>, NaN),
      PeopleRow(P2, gov2, NaN, NaN, <<"O","'","H","a","r","a">>, <<"J","r",".">>, <<1900, 1, 1>>, <<"N","O","R","L">>),
      PeopleRow(P3, <<"5","5","5","4","4","3","3","3","3">>, <<"C","y">>, NaN, <<"P","o","e">>, NaN, NaN, NaN)>>

FullTables ==
    [today |-> <<2022, 5, 20>>,
     start_date_str |-> <<"2","0","2","2","-","0","1","-","1","5">>,
     end_date_str |-> <<"2","0","2","2","-","0","5","-","1","5">>,
     PEOPLE |-> PeopleTable(<<"1","2","3","4","5","6","7","8","9">>, <<"8","8","8","1","2","3","4","5","6">>),
     PEOPLEFORMERNAME |->
        <<FormerNameRow(P1, <<"A","n","n","a">>, NaN, <<"L","i">>, <<2019, 6, 1>>),
          FormerNameRow(P1, <<"A","n","n","i","e">>, NaN, <<"L","e","e","-","L","i">>, <<2015, 6, 1>>)>>,
     ACADEMIC |->
        <<AcademicRow(P1, 2022, <<"S","P","R","I","N","G">>), AcademicRow(P1, 2018, <<"F","A","L","L">>),
          AcademicRow(P2, 2020, <<"F","A","L","L">>)>>,
     ACADEMICCALENDAR |->
        <<CalendarRow(2018, <<"F","A","L","L">>, <<2018, 8, 27>>, <<2018, 12, 14>>, <<2018, 12, 18>>),
          CalendarRow(2022, <<"S","P","R","I","N","G">>, <<2022, 1, 18>>, <<2022, 5, 6>>, NaN),
          CalendarRow(2022, <<"S","P","R","I","N","G">>, <<2022, 1, 10>>, <<2022, 4, 30>>, <<2022, 5, 10>>)>>,
     TRANSCRIPTDEGREE |->
        <<DegreeRow(P1, <<"U","N","D","E","R">>, <<"B","S">>, <<"F","O","R">>, <<"F","o","r","e","s","t","r","y">>, InRange)>>,
     TRANSCRIPTHONORS |->
        <<HonorsRow(P1, <<"U","N","D","E","R">>, <<"B","S">>, <<"F","O","R">>, <<"C","U","M">>)>>,
     DegreeMappingNsc |->
        <<MappingRow(2021, <<"F","A","L","L">>, <<"B","S">>, <<"F","O","R">>, <<"0","3",".","0","5","0","1">>, 2020),
          MappingRow(2019, <<"F","A","L","L">>, <<"B","S">>, <<"F","O","R">>, <<"0","3",".","0","5","9","9">>, 2010)>>,
     CODE_DEGREE |->
        <<CodeRow(<<"B","S">>, <<"B","a","c","h","e","l","o","r"," ","o","f"," ","S","c","i","e","n","c","e">>),
          CodeRow(<<"A","S">>, <<"A","s","s","o","c","i","a","t","e"," ","i","n"," ","S","c","i","e","n","c","e">>),
          CodeRow(<<"P","H","D">>, LongTitle)>>,
     STOPLIST |->
        <<StopRow(P1, <<"B","U","R","S">>, <<2022, 3, 1>>, <<"N">>),
          StopRow(P1, <<"L","I","B","R">>, <<2022, 4, 1>>, <<"N">>),
          StopRow(P2, <<"C","O","L","L">>, <<2022, 3, 1>>, <<"Y">>)>>]

\* the degree rows a run of the whole job is checked on: a bachelor's and an
\* associate's award, a code no rule of lines 341-345 names, a minor, and an
\* award of P3, whom people_data leaves out
MainDegreeRows ==
    {DegreeRow(P1, <<"U","N","D","E","R">>, <<"B","S">>, <<"F","O","R">>, <<"F","o","r","e","s","t","r","y">>, InRange),
     DegreeRow(P2, <<"U","N","D","E","R">>, <<"A","S">>, <<"C","U","L">>, LongTitle, <<2022, 1, 15>>),
     DegreeRow(P1, <<"U","N","D","E","R">>, <<"P","H","D">>, <<"F","O","R">>, <<"F","o","r","e","s","t","r","y">>, InRange),
     DegreeRow(P1, <<"U","N","D","E","R">>, <<"M","I","N","O","R">>, <<"B","I","O">>, <<"B","i","o","l","o","g","y"," ","M","i","n","o","r">>, InRange),
     DegreeRow(P3, <<"U","N","D","E","R">>, <<"B","S">>, <<"F","O","R">>, <<"F","o","r","e","s","t","r","y">>, InRange)}

MaxMainRows == 2

Ancillary ==
    {"PEOPLEFORMERNAME", "ACADEMIC", "TRANSCRIPTHONORS", "DegreeMappingNsc",
     "CODE_DEGREE", "STOPLIST"}

\* tables with the tables named in empty holding no row
Without(tables, empty) ==
    [t \in DOMAIN tables |-> IF t \in empty THEN <<>> ELSE tables[t]]

\* the databases a run of the whole job is checked on: every ancillary table
\* full, each one alone empty, all of them empty
MainDatabases ==
    {[Without(FullTables, empty) EXCEPT
        !.TRANSCRIPTDEGREE = td,
        !.PEOPLE = PeopleTable(<<"1","2","3","-","4","5","-","6","7","8","9">>, <<"8","8","8","1","2","3","4","5","6">>)] :
        td \in SeqsUpTo(MainDegreeRows, MaxMainRows),
        empty \in {{}} \cup {{t} : t \in Ancillary} \cup {Ancillary}}

\* the degree rows create_DV_df is checked on: two rows of one award (one
\* key), the award again under another program, another student's award,
\* a minor, an award of P3, a NOND row and a row out of the date range
JoinDegreeRows ==
    {DegreeRow(P1, <<"U","N","D","E","R">>, <<"B","S">>, <<"F","O","R">>, <<"F","o","r","e","s","t","r","y">>, InRange),
     DegreeRow(P1, <<"U","N","D","E","R">>, <<"B","S">>, <<"F","O","R">>, <<"F","o","r","e","s","t"," ","S","c","i","e","n","c","e">>, InRange),
     DegreeRow(P1, <<"G","R","A","D">>, <<"B","S">>, <<"F","O","R">>, <<"F","o","r","e","s","t","r","y">>, InRange),
     DegreeRow(P2, <<"U","N","D","E","R">>, <<"A","S">>, <<"C","U","L">>, <<"C","u","l","i","n","a","r","y"," ","A","r","t","s">>, <<2022, 1, 15>>),
     DegreeRow(P1, <<"U","N","D","E","R">>, <<"M","I","N","O","R">>, <<"B","I","O">>, <<"B","i","o","l","o","g","y"," ","M","i","n","o","r">>, InRange),
     DegreeRow(P3, <<"U","N","D","E","R">>, <<"B","S">>, <<"F","O","R">>, <<"F","o","r","e","s","t","r","y">>, InRange),
     DegreeRow(P2, <<"U","N","D","E","R">>, <<"N","O","N","D">>, <<"C","U","L">>, <<"C","u","l","i","n","a","r","y"," ","A","r","t","s">>, InRange),
     DegreeRow(P2, <<"U","N","D","E","R">>, <<"A","S">>, <<"C","U","L">>, <<"C","u","l","i","n","a","r","y"," ","A","r","t","s">>, <<2021, 12, 31>>)}

MaxDegreeRows == 2

HonorsTables ==
    {<<>>,
     <<HonorsRow(P1, <<"U","N","D","E","R">>, <<"B","S">>, <<"F","O","R">>, <<"C","U","M">>)>>,
     <<HonorsRow(P1, <<"U","N","D","E","R">>, <<"B","S">>, <<"F","O","R">>, <<"C","U","M">>),
       HonorsRow(P1, <<"U","N","D","E","R">>, <<"B","S">>, <<"F","O","R">>, <<"M","A","G","N","A">>)>>,
     <<HonorsRow(P1, <<"U","N","D","E","R">>, <<"B","S">>, <<"F","O","R">>, <<"S","U","M","M","A">>),
       HonorsRow(P1, <<"G","R","A","D">>, <<"B","S">>, <<"F","O","R">>, <<"S","U","M","M","A">>)>>}

\* the databases create_DV_df is checked on: the degree rows against the
\* honors tables; every degree code; every pair of government IDs
DVDatabases ==
    {[FullTables EXCEPT
        !.TRANSCRIPTDEGREE = td,
        !.TRANSCRIPTHONORS = th,
        !.PEOPLE = PeopleTable(<<"1","2","3","4","5","6","7","8","9">>, gov2)] :
        td \in SeqsUpTo(JoinDegreeRows, MaxDegreeRows),
        th \in HonorsTables,
        gov2 \in {<<"8","8","8","1","2","3","4","5","6">>, NaN}}
    \cup
    {[FullTables EXCEPT
        !.TRANSCRIPTDEGREE =
            <<DegreeRow(P1, <<"U","N","D","E","R">>, d, <<"F","O","R">>, <<"F","o","r","e","s","t","r","y">>, InRange)>> \o more] :
        d \in DegreeCodes,
        more \in {<<>>,
                  <<DegreeRow(P2, <<"U","N","D","E","R">>, <<"A","S">>, <<"C","U","L">>, <<"C","u","l","i","n","a","r","y"," ","A","r","t","s">>, InRange)>>}}
    \cup
    {[FullTables EXCEPT
        !.TRANSCRIPTDEGREE =
            <<DegreeRow(P1, <<"U","N","D","E","R">>, <<"B","S">>, <<"F","O","R">>, <<"F","o","r","e","s","t","r","y">>, InRange),
              DegreeRow(P2, <<"U","N","D","E","R">>, <<"A","S">>, <<"C","U","L">>, <<"C","u","l","i","n","a","r","y"," ","A","r","t","s">>, InRange)>>,
        !.PEOPLE = PeopleTable(gov1, gov2)] :
        gov1 \in GovernmentIds, gov2 \in GovernmentIds}

MaxWidth == 2

MaxFwRows == 2

\* the column names of the specs write_fw is checked on by itself: a filler
\* in the middle, and a filler first with a name that is no filler ("Filler"
\* is matched by case) last
FwNames == {<<"Name", "Filler", "Code">>, <<"XFillerX", "Name", "filler">>}

\* the specs write_fw is checked on by itself: fields laid out one after the
\* other from column 1, each with its end right or one too far
FwSpecs ==
    {[k \in 1..Len(names) |->
        LET start == 1 + Len(Flatten([j \in 1..(k - 1) |->
                                         [x \in 1..width[j] |-> 0]]))
        IN  Col(names[k], width[k], start, start + (width[k] - 1) + off[k])] :
        names \in FwNames,
        width \in [1..3 -> 1..MaxWidth],
        off \in [1..3 -> {0, 1}]}

\* the rows write_fw is checked on by itself: a value shorter and one longer
\* than its field, with and without a value under the fillers' names
FwRows ==
    {(("Name" :> name) @@ ("Code" :> <<"7">>) @@ ("filler" :> <<"f">>)) @@ under :
        name \in {<<>>, <<"a","b","c">>},
        under \in {<<>>, ("Filler" :> <<"X","Y">>) @@ ("XFillerX" :> <<"X","Y">>)}}

\* what the output file may hold before the run: nothing, or a line of an
\* earlier file of the same name
EarlierFiles == {<<>>, <<<<"s","t","a","l","e","\n">>>>}

(***************************************************************************)
(* main and create_DV_df, statement by statement                           *)
(***************************************************************************)

NoFrames ==
    [df_td |-> <<>>, df_a |-> <<>>, df_p |-> <<>>, df_minor |-> <<>>,
     df_th |-> <<>>, df_dm |-> <<>>, df_code_degree |-> <<>>,
     df_stoplist |-> <<>>]

\* line 664 into lines 270-276: the degree, enrollment and people readers
read_degrees_and_people ==
    /\ pc = "create"
    /\ frames' = [frames EXCEPT
            !.df_td = transcript_degree_data(datetime64(db.start_date_str),
                                             datetime64(db.end_date_str)),
            !.df_a = academic_data,
            !.df_p = people_data]
    /\ pc' = "L279"
    /\ UNCHANGED <<db, df, file, lw, fw>>

\* lines 279-295: former names, the minor pivot and the other readers
read_ancillary ==
    /\ pc = "L279"
    /\ frames' = [frames EXCEPT
            !.df_p = people_formername(frames.df_p),
            !.df_minor = minor_data(frames.df_td),
            !.df_th = transcript_honors,
            !.df_dm = degree_mapping,
            !.df_code_degree = code_degree,
            !.df_stoplist = stoplist_data]
    /\ pc' = "L297"
    /\ UNCHANGED <<db, df, file, lw, fw>>

\* lines 297-337: the minors leave df_td, the left merges build df
merge_frames ==
    /\ pc = "L297"
    /\ df' = merge_all(SelectSeq(frames.df_td, LAMBDA r : r["DEGREE"] # <<"M","I","N","O","R">>),
                       frames.df_a, frames.df_p, frames.df_minor,
                       frames.df_th, frames.df_dm, frames.df_code_degree,
                       frames.df_stoplist)
    /\ pc' = "L339"
    /\ UNCHANGED <<db, frames, file, lw, fw>>

\* lines 339-357.  On a frame with no row, line 341 raises ValueError
\* (pandas: "cannot set a frame with no defined index and a scalar")
apply_codes ==
    /\ pc = "L339"
    /\ IF df = <<>>
       THEN pc' = "failed" /\ UNCHANGED df
       ELSE pc' = "L359" /\ df' = code_fields(df)
    /\ UNCHANGED <<db, frames, file, lw, fw>>

\* lines 359-433
apply_names ==
    /\ pc = "L359"
    /\ df' = name_and_fill(df)
    /\ pc' = "L435"
    /\ UNCHANGED <<db, frames, file, lw, fw>>

\* lines 435-451, and main goes on to the header (the spreadsheet of lines
\* 668-672 is a copy of df that nothing reads)
apply_ssn_rules ==
    /\ pc = "L435"
    /\ df' = sort_by_ssn_and_date(fill_first_name(no_ssn(drop_missing_ssn(df))))
    /\ pc' = "header"
    /\ UNCHANGED <<db, frames, file, lw, fw>>

Init ==
    /\ db \in MainDatabases
    /\ pc = "create"
    /\ frames = NoFrames
    /\ df = <<>>
    /\ file \in EarlierFiles
    /\ lw = 0
    /\ fw = Idle

create_DV_df ==
    \/ read_degrees_and_people
    \/ read_ancillary
    \/ merge_frames
    \/ apply_codes
    \/ apply_names
    \/ apply_ssn_rules

write_fw ==
    \/ write_fw_open
    \/ write_fw_row
    \/ write_fw_return

Next ==
    \/ create_DV_df
    \/ write_DV_header
    \/ write_DV_data
    \/ write_DV_trailer
    \/ write_fw

\* the whole job: main from line 664 to line 679
Spec == Init /\ [][Next]_vars

InitDV ==
    /\ db \in DVDatabases
    /\ pc = "create"
    /\ frames = NoFrames
    /\ df = <<>>
    /\ file = <<>>
    /\ lw = 0
    /\ fw = Idle

\* create_DV_df by itself, up to its return
SpecDV == InitDV /\ [][create_DV_df]_vars

InitFW ==
    /\ db = FullTables
    /\ pc = "write_fw"
    /\ frames = NoFrames
    /\ df \in SeqsUpTo(FwRows, MaxFwRows)
    /\ file \in EarlierFiles
    /\ lw = 0
    /\ \E f_mode \in {"w", "a"}, specs \in FwSpecs :
           fw = Call(f_mode, df, specs, "done")

\* write_fw by itself: one call write_fw(fpath, f_mode, df, specs)
SpecFW == InitFW /\ [][write_fw]_vars


D1 == InRange
D2 == <<2022, 1, 15>>

\* the minor rows minor_data is checked on, in no order: five minors of P1
\* on one graduation date, two on an earlier one, and a minor of P2
MinorRows ==
    <<DegreeRow(P1, <<"U","N","D","E","R">>, <<"M","I","N","O","R">>, <<"M","A","T">>, <<"M","a","t","h","e","m","a","t","i","c","s"," ","M","i","n","o","r">>, D1),
      DegreeRow(P1, <<"U","N","D","E","R">>, <<"M","I","N","O","R">>, <<"B","I","O">>, <<"B","i","o","l","o","g","y"," ","M","i","n","o","r">>, D2),
      DegreeRow(P1, <<"U","N","D","E","R">>, <<"M","I","N","O","R">>, <<"E","C","O">>, <<"E","c","o","n","o","m","i","c","s"," ","M","i","n","o","r">>, D1),
      DegreeRow(P2, <<"U","N","D","E","R">>, <<"M","I","N","O","R">>, <<"B","I","O">>, <<"B","i","o","l","o","g","y"," ","M","i","n","o","r">>, D1),
      DegreeRow(P1, <<"U","N","D","E","R">>, <<"M","I","N","O","R">>, <<"A","R","T">>, <<"A","r","t"," ","M","i","n","o","r">>, D1),
      DegreeRow(P1, <<"U","N","D","E","R">>, <<"M","I","N","O","R">>, <<"C","H","E">>, <<"C","h","e","m","i","s","t","r","y"," ","M","i","n","o","r">>, D2),
      DegreeRow(P1, <<"U","N","D","E","R">>, <<"M","I","N","O","R">>, <<"C","H","E">>, <<"C","h","e","m","i","s","t","r","y"," ","M","i","n","o","r">>, D1),
      DegreeRow(P1, <<"U","N","D","E","R">>, <<"M","I","N","O","R">>, <<"B","I","O">>, <<"B","i","o","l","o","g","y"," ","M","i","n","o","r">>, D1)>>

MaxMinors == 5

\* the databases minor_data is checked on: an award of P1 on each of the two
\* graduation dates and an award of P2, with at most MaxMinors of the minor
\* rows
MinorDatabases ==
    {[FullTables EXCEPT
        !.TRANSCRIPTDEGREE =
            <<DegreeRow(P1, <<"U","N","D","E","R">>, <<"B","S">>, <<"F","O","R">>, <<"F","o","r","e","s","t","r","y">>, D1),
              DegreeRow(P1, <<"U","N","D","E","R">>, <<"A","S">>, <<"C","U","L">>, <<"C","u","l","i","n","a","r","y"," ","A","r","t","s">>, D2),
              DegreeRow(P2, <<"U","N","D","E","R">>, <<"A","S">>, <<"C","U","L">>, <<"C","u","l","i","n","a","r","y"," ","A","r","t","s">>, D1)>>
            \o RowsAt(MinorRows, idx)] :
        idx \in {s \in SUBSET (1..Len(MinorRows)) : Cardinality(s) <= MaxMinors}}

\* create_DV_df on the databases with minors
InitMinor ==
    /\ db \in MinorDatabases
    /\ pc = "create"
    /\ frames = NoFrames
    /\ df = <<>>
    /\ file = <<>>
    /\ lw = 0
    /\ fw = Idle

SpecMinor == InitMinor /\ [][create_DV_df]_vars

\* the degree rows the order of the records is checked on: an award of each
\* of two students on each of two graduation dates
OrderDegreeRows ==
    {DegreeRow(P1, <<"U","N","D","E","R">>, <<"B","S">>, <<"F","O","R">>, <<"F","o","r","e","s","t","r","y">>, D1),
     DegreeRow(P1, <<"U","N","D","E","R">>, <<"A","S">>, <<"C","U","L">>, <<"C","u","l","i","n","a","r","y"," ","A","r","t","s">>, D2),
     DegreeRow(P2, <<"U","N","D","E","R">>, <<"A","S">>, <<"C","U","L">>, <<"C","u","l","i","n","a","r","y"," ","A","r","t","s">>, D1),
     DegreeRow(P2, <<"U","N","D","E","R">>, <<"B","S">>, <<"F","O","R">>, <<"F","o","r","e","s","t","r","y">>, D2)}

MaxOrderRows == 2

\* the databases the order of the records is checked on: the government ID
\* of P2 is before that of P1 and has no placeholder prefix, or has one, or
\* both have one
OrderDatabases ==
    {[FullTables EXCEPT
        !.TRANSCRIPTDEGREE = td,
        !.PEOPLE = PeopleTable(gov[1], gov[2])] :
        td \in SeqsUpTo(OrderDegreeRows, MaxOrderRows),
        gov \in {<<<<"1","2","3","4","5","6","7","8","9">>, <<"1","0","0","0","0","0","0","0","0">>>>,
                 <<<<"1","2","3","4","5","6","7","8","9">>, <<"0","0","0","1","2","3","4","5","6">>>>,
                 <<<<"9","9","9","1","2","3","4","5","6">>, <<"0","0","0","1","2","3","4","5","6">>>>}}

\* the whole job on the databases for the order of the records
InitOrder ==
    /\ db \in OrderDatabases
    /\ pc = "create"
    /\ frames = NoFrames
    /\ df = <<>>
    /\ file = <<>>
    /\ lw = 0
    /\ fw = Idle

SpecOrder == InitOrder /\ [][Next]_vars
(***************************************************************************)
(* Properties                                                              *)
(***************************************************************************)

LineLength == 3840

\* C1: every line a step of the job writes to the output file, under the
\* header, the data or the trailer schema, is exactly 3840 characters followed
\* by one newline character.
C1_EveryLineIs3840 ==
    [][\A i \in (Len(file) + 1)..Len(file') :
          /\ Len(file'[i]) = LineLength + 1
          /\ file'[i][LineLength + 1] = "\n"
          /\ \A k \in 1..LineLength : file'[i][k] # "\n"]_vars

\* a finished run that wrote two data lines, from a row with a value longer
\* than its field and values shorter than theirs
C1_Witness ==
    /\ pc = "done"
    /\ Len(df) = 2
    /\ Len(file) = 4
    /\ \E i \in 1..2 : Len(df[i]["Major Course of Study 1"]) > 80
    /\ \E i \in 1..2 : Len(df[i]["First Name"]) < 40

\* the fields of specs that are no fillers
DataFields(specs) ==
    {k \in 1..Len(specs) : ~StrIn(<<"F","i","l","l","e","r">>, chars(specs[k].c))}

\* C2: in every line write_fw writes, the columns start..end of a field that
\* is no filler are exactly width characters: the first width characters of
\* the row's value when the value is longer than width, otherwise the value
\* followed by spaces up to width.
C2_TruncateOrPadInPlace ==
    [][(fw.st = "loop" /\ Len(file') = Len(file) + 1) =>
         LET row  == Head(fw.rows)
             line == file'[Len(file')]
         IN  \A k \in DataFields(fw.specs) :
                LET v == fw.specs[k]
                    value == row[v.c]
                IN  /\ (v.end - v.start) + 1 = v.max_len
                    /\ v.end <= Len(line)
                    /\ \A i \in 1..v.max_len :
                          line[(v.start + i) - 1] =
                              IF i <= Len(value) THEN value[i] ELSE " "]_vars

\* the data lines have been written from a row whose SSN is longer than its
\* field, a row whose major is longer than its field, and a first name
\* shorter than its field
C2_Witness ==
    /\ pc = "trailer"
    /\ lw = Len(df)
    /\ \E i \in 1..Len(df) : Len(df[i]["Student SSN"]) > 9
    /\ \E i \in 1..Len(df) : Len(df[i]["Major Course of Study 1"]) > 80
    /\ \E i \in 1..Len(df) : Len(df[i]["First Name"]) \in 1..39

\* the fields of specs whose name contains "Filler"
FillerFields(specs) == (1..Len(specs)) \ DataFields(specs)

\* C3: in every line write_fw writes, the columns start..end of a field whose
\* name contains "Filler" are exactly width spaces, whatever the row holds
\* under that name and also when the row has no column of that name.
C3_FillerIsSpaces ==
    [][(fw.st = "loop" /\ Len(file') = Len(file) + 1) =>
         LET line == file'[Len(file')]
         IN  \A k \in FillerFields(fw.specs) :
                LET v == fw.specs[k]
                IN  /\ (v.end - v.start) + 1 = v.max_len
                    /\ v.end <= Len(line)
                    /\ \A i \in v.start..v.end : line[i] = " "]_vars

\* two lines have been written under a spec with a filler two columns wide:
\* the first from a row holding other text under the filler's name, the
\* second from a row with no such column
C3_Witness ==
    /\ fw.st = "loop"
    /\ fw.lw = 2
    /\ Len(file) >= 2
    /\ \E k \in FillerFields(fw.specs) :
          /\ fw.specs[k].max_len = 2
          /\ fw.specs[k].c \in DOMAIN df[1]
          /\ df[1][fw.specs[k].c] = <<"X","Y">>
          /\ fw.specs[k].c \notin DOMAIN df[2]

\* some field of specs violates start + (width - 1) == end
Inconsistent(specs) ==
    \E k \in 1..Len(specs) :
       specs[k].start + (specs[k].max_len - 1) # specs[k].end

\* C4: when some field of the spec passed to write_fw violates
\* start + (width - 1) == end, the loop of write_fw never changes the file,
\* and the call returns 0: at the first row when there are rows, whichever
\* field is the inconsistent one.
C4_InconsistentSpecWritesNothing ==
    [][(fw.st = "loop" /\ Inconsistent(fw.specs)) =>
         /\ file' = file
         /\ fw'.st = "idle"
         /\ pc' = fw.cont
         /\ lw' = 0]_vars

\* a call of write_fw on two rows has returned 0
C4_Witness ==
    /\ pc = "done"
    /\ fw.st = "idle"
    /\ Len(df) = 2
    /\ lw = 0

\* the lines of the file that begin with the record type tag
LinesOfType(tag) == {i \in 1..Len(file) : startswith(file[i], tag)}

\* the number a field of digits followed by spaces holds
CountIn(field) == int(SelectSeq(field, LAMBDA ch : ch # " "))

\* C5: when a run has completed, the Total Record Count in columns 4..13 of
\* the DT1 trailer line is N + 2, where N is the number of DD1 lines in the
\* file, and that is the number of lines of the file.
C5_TrailerCountsAllLines ==
    pc = "done" =>
        LET trailer == file[Len(file)]
            N == Cardinality(LinesOfType(<<"D","D","1">>))
        IN  /\ startswith(trailer, <<"D","T","1">>)
            /\ SelectSeq(SubSeq(trailer, 4, 13), LAMBDA ch : ch # " ") # <<>>
            /\ CountIn(SubSeq(trailer, 4, 13)) = N + 2
            /\ N + 2 = Len(file)

\* a run has completed with two DD1 lines in the file
C5_Witness ==
    /\ pc = "done"
    /\ Cardinality(LinesOfType(<<"D","D","1">>)) = 2

\* C6: once the header has been written the file begins with the one DH1
\* line and holds nothing from before the run; when a run has completed the
\* file is that DH1 line, then one DD1 line for each of the N records in
\* their order, then one DT1 line, and nothing else.
C6_HeaderDataTrailer ==
    /\ pc \in {"data", "trailer", "done"} =>
          /\ file # <<>>
          /\ LinesOfType(<<"D","H","1">>) = {1}
          /\ \A i \in 1..Len(file) : file[i] \notin UNION {Range(e) : e \in EarlierFiles}
    /\ pc \in {"trailer", "done"} =>
          /\ LinesOfType(<<"D","D","1">>) = 2..(Len(df) + 1)
          /\ \A i \in 1..Len(df) :
                SubSeq(file[i + 1], 226, 245) = ljust(df[i]["College Student ID"], 20)
    /\ pc = "done" =>
          /\ LinesOfType(<<"D","T","1">>) = {Len(df) + 2}
          /\ Len(file) = Len(df) + 2

\* a run has completed with the records of two students
C6_Witness ==
    /\ pc = "done"
    /\ Len(df) = 2
    /\ df[1]["College Student ID"] # df[2]["College Student ID"]
    /\ startswith(file[1], <<"D","H","1">>)

\* the deduplicated degree awards that are no minors
Awards == SelectSeq(frames.df_td, LAMBDA a : a["DEGREE"] # <<"M","I","N","O","R">>)

\* the student of award a is among the people read and has a government ID
HasGovernmentId(a) ==
    \E i \in 1..Len(frames.df_p) :
       /\ frames.df_p[i]["PEOPLE_CODE_ID"] = a["PEOPLE_CODE_ID"]
       /\ ~IsNa(frames.df_p[i]["GOVERNMENT_ID"])

\* record r is a record of award a
RecordOf(a, r) ==
    /\ r["College Student ID"] = a["PEOPLE_CODE_ID"]
    /\ r["DEGREE"] = a["DEGREE"]
    /\ r["CURRICULUM"] = a["CURRICULUM"]
    /\ r["Date Degree, Credential, or Certificate Awarded"] = a["GRADUATION_DATE"]
    /\ r["Major Course of Study 1"] = a["FORMAL_TITLE"]

\* C7: the records create_DV_df returns are one record for each deduplicated
\* non-minor award whose student has a government ID, and no record for any
\* other award: as many records of an award as the awards hold rows equal to
\* it, none for a student without a government ID, and every record is the
\* record of such an award.
C7_OneRecordPerAward ==
    pc = "header" =>
        /\ \A i \in 1..Len(Awards) :
              Cardinality({j \in 1..Len(df) : RecordOf(Awards[i], df[j])}) =
                  IF HasGovernmentId(Awards[i])
                  THEN Cardinality({k \in 1..Len(Awards) : Awards[k] = Awards[i]})
                  ELSE 0
        /\ \A j \in 1..Len(df) :
              \E i \in 1..Len(Awards) :
                 HasGovernmentId(Awards[i]) /\ RecordOf(Awards[i], df[j])

\* the degree codes lines 341-345 give a level to
LevelledDegrees ==
    {<<"B","S">>, <<"B","A">>, <<"B","P","S">>, <<"A","S">>, <<"A","A","S">>, <<"A","A">>, <<"A","O","S">>, <<"M","S">>, <<"M","P","S">>, <<"C","E","R","T","I","F">>, <<"G","C","E","R","T">>}

\* the field of the data schema named c
DataField(c) ==
    dv_col_def[CHOOSE k \in 1..Len(dv_col_def) : dv_col_def[k].c = c]

\* the columns of the field named c hold only spaces in line
Blank(line, c) ==
    \A i \in DataField(c).start..DataField(c).end : line[i] = " "

\* the fields of the data line of record r that are fed by a reader with no
\* row for r
FieldsWithoutSource(r) ==
    LET id == r["College Student ID"]
    IN  (IF \E a \in Range(frames.df_a) : a["PEOPLE_CODE_ID"] = id THEN {}
         ELSE {"Attendance From Date", "Attendance To Date"})
        \cup
        (IF \E n \in Range(db.PEOPLEFORMERNAME) : n["PEOPLE_CODE_ID"] = id THEN {}
         ELSE {"Previous Last Name", "Previous First Name"})
        \cup
        (IF \E h \in Range(frames.df_th) :
                /\ h["PEOPLE_CODE_ID"] = id
                /\ h["DEGREE"] = r["DEGREE"]
                /\ h["CURRICULUM"] = r["CURRICULUM"] THEN {}
         ELSE {"Academic Honors"})
        \cup
        (IF \E m \in Range(frames.df_dm) :
                /\ m["Degree"] = r["DEGREE"]
                /\ m["Curriculum"] = r["CURRICULUM"] THEN {}
         ELSE {"NCES CIP Code for Major 1"})
        \cup
        (IF \E c \in Range(frames.df_code_degree) :
                c["CODE_VALUE_KEY"] = r["DEGREE"] THEN {}
         ELSE {"Degree, Certificate, or Credential Title"})
        \cup
        (IF \E h \in Range(frames.df_stoplist) : h["PEOPLE_CODE_ID"] = id THEN {}
         ELSE {"School Financial Block"})

\* C8: when a run has assembled records whose degree codes all have a level,
\* it completes without error although an ancillary reader (enrollment span,
\* former name, honors, degree mapping, degree-code description, financial
\* hold) returned no row for an award, and every field fed by such a reader
\* is spaces in the data line of that award.
C8_MissingAncillaryIsBlank ==
    (/\ pc \in {"done", "failed"}
     /\ df # <<>>
     /\ \A j \in 1..Len(df) : df[j]["DEGREE"] \in LevelledDegrees) =>
        /\ pc = "done"
        /\ \A j \in 1..Len(df) :
              \A c \in FieldsWithoutSource(df[j]) : Blank(file[j + 1], c)

\* the Degree Level Indicator of a degree code, blank when no level is named
\* for the code
LevelOf(degree) ==
    CASE degree \in {<<"B","S">>, <<"B","A">>, <<"B","P","S">>} -> <<"B">>
      [] degree \in {<<"A","S">>, <<"A","A","S">>, <<"A","A">>, <<"A","O","S">>} -> <<"A">>
      [] degree \in {<<"M","S">>, <<"M","P","S">>} -> <<"M">>
      [] degree = <<"C","E","R","T","I","F">> -> <<"C">>
      [] degree = <<"G","C","E","R","T">> -> <<"T">>
      [] OTHER -> <<" ">>

\* C9: in every record create_DV_df returns, Degree Level Indicator is B for
\* the degree codes BS, BA and BPS, A for AS, AAS, AA and AOS, M for MS and
\* MPS, C for CERTIF, T for GCERT, and a single space for every other code.
C9_DegreeLevelIndicator ==
    pc = "header" =>
        \A j \in 1..Len(df) :
           df[j]["Degree Level Indicator"] = LevelOf(df[j]["DEGREE"])

\* the government ID the PEOPLE table holds for the student id
GovernmentIdOf(id) ==
    LET i == CHOOSE i \in 1..Len(db.PEOPLE) : db.PEOPLE[i]["PEOPLE_CODE_ID"] = id
    IN  db.PEOPLE[i]["GOVERNMENT_ID"]

\* text begins with 000, 888 or 999
HasPlaceholderPrefix(text) ==
    /\ Len(text) >= 3
    /\ <<text[1], text[2], text[3]>> \in {<<"0","0","0">>, <<"8","8","8">>, <<"9","9","9">>}

\* C10: in every record create_DV_df returns, Student SSN is "NO SSN" when
\* the government ID of the record's student begins with 000, 888 or 999,
\* and is that government ID unchanged otherwise.
C10_NoSsnLabel ==
    pc = "header" =>
        \A j \in 1..Len(df) :
           LET gov == GovernmentIdOf(df[j]["College Student ID"])
           IN  df[j]["Student SSN"] =
                   IF HasPlaceholderPrefix(gov) THEN <<"N","O"," ","S","S","N">> ELSE gov

\* create_DV_df has returned a record of a student whose ID begins with 888
\* and a record of a student whose ID holds 888 further in
C10_Witness ==
    /\ pc = "header"
    /\ \E j \in 1..Len(df) :
          /\ GovernmentIdOf(df[j]["College Student ID"]) = <<"8","8","8","1","2","3","4","5","6">>
          /\ df[j]["Student SSN"] = <<"N","O"," ","S","S","N">>
    /\ \E j \in 1..Len(df) :
          /\ GovernmentIdOf(df[j]["College Student ID"]) = <<"1","0","0","0","8","8","8","9","9">>
          /\ df[j]["Student SSN"] = <<"1","0","0","0","8","8","8","9","9">>

\* the minor rows the degree table holds for the student id
MinorsOf(id) ==
    {i \in 1..Len(db.TRANSCRIPTDEGREE) :
        /\ db.TRANSCRIPTDEGREE[i]["DEGREE"] = <<"M","I","N","O","R">>
        /\ db.TRANSCRIPTDEGREE[i]["PEOPLE_CODE_ID"] = id}

\* the minor rows the degree table holds for the student id on the date
MinorsOn(id, date) ==
    {i \in MinorsOf(id) : db.TRANSCRIPTDEGREE[i]["GRADUATION_DATE"] = date}

\* the place of the minor row i among the minors of its student and date, in
\* the order of their curriculum codes
PlaceOf(i) ==
    LET r == db.TRANSCRIPTDEGREE[i]
    IN  1 + Cardinality({j \in MinorsOn(r["PEOPLE_CODE_ID"], r["GRADUATION_DATE"]) :
                StrLess(db.TRANSCRIPTDEGREE[j]["CURRICULUM"], r["CURRICULUM"])})

\* the title of a minor as a column holds it, " Minor" left off its end
WithoutMinor(title) == SubSeq(title, 1, Len(title) - 6)

\* the rows of the minor frame for the student and the graduation date
PivotRows(id, date) ==
    {k \in 1..Len(frames.df_minor) :
        /\ frames.df_minor[k]["PEOPLE_CODE_ID"] = id
        /\ frames.df_minor[k]["GRADUATION_DATE"] = strftime(date)}

\* the minor columns
MinorColumns == {MinorCol(r) : r \in 1..4}

\* what the row of the minor frame holds under a minor column, a space when
\* the frame has no such column
MinorCell(k, c) ==
    IF c \in DOMAIN frames.df_minor[k] THEN frames.df_minor[k][c] ELSE <<" ">>

\* C11: when the minors of a student are 5 distinct minor records, all for
\* one graduation date, the result of minor_data has one row for the student
\* and the date, Minor Course of Study 1 to 4 of that row hold the four
\* minors ranked first (the ties of the one date are ranked in the order of
\* the sorted degree rows, by curriculum code), and the minor ranked fifth is
\* in no column of any row of the result.
C11_FifthMinorIsDropped ==
    pc \notin {"create", "L279"} =>
        \A id \in {P1, P2} : \A date \in {D1, D2} :
            (Cardinality(MinorsOn(id, date)) = 5 /\ MinorsOf(id) = MinorsOn(id, date)) =>
                /\ Cardinality(PivotRows(id, date)) = 1
                /\ \A k \in PivotRows(id, date) : \A i \in MinorsOn(id, date) :
                      IF PlaceOf(i) <= 4
                      THEN MinorCell(k, MinorCol(PlaceOf(i)))
                               = WithoutMinor(db.TRANSCRIPTDEGREE[i]["FORMAL_TITLE"])
                      ELSE \A j \in 1..Len(frames.df_minor) : \A c \in MinorColumns :
                              MinorCell(j, c)
                                  # WithoutMinor(db.TRANSCRIPTDEGREE[i]["FORMAL_TITLE"])

\* minor_data has returned for a student whose minors are five minors of one
\* graduation date
C11_Witness ==
    /\ pc = "L297"
    /\ Cardinality(MinorsOn(P1, D1)) = 5
    /\ MinorsOf(P1) = MinorsOn(P1, D1)
    /\ PivotRows(P1, D1) # {}

\* a <= b on texts, in the order of their characters
StrLeq(a, b) == a = b \/ StrLess(a, b)

\* record a is not after record b in the order of (Student SSN, award date)
InOrder(a, b) ==
    \/ StrLess(a["Student SSN"], b["Student SSN"])
    \/ /\ a["Student SSN"] = b["Student SSN"]
       /\ StrLeq(a["Date Degree, Credential, or Certificate Awarded"],
                 b["Date Degree, Credential, or Certificate Awarded"])

\* what line holds in the columns of the field named c
FieldOf(line, c) == SubSeq(line, DataField(c).start, DataField(c).end)

\* C12: the records create_DV_df returns are in ascending order of (Student
\* SSN, degree-award date), Student SSN being the value of the record after
\* the "NO SSN" rule, and the DD1 lines of the file are the lines of those
\* records in that order.
C12_SortedBySsnAndDate ==
    /\ pc \in {"header", "data", "trailer", "done"} =>
          \A j \in 1..(Len(df) - 1) : InOrder(df[j], df[j + 1])
    /\ pc \in {"trailer", "done"} =>
          /\ LinesOfType(<<"D","D","1">>) = 2..(Len(df) + 1)
          /\ \A j \in 1..Len(df) :
                /\ FieldOf(file[j + 1], "Student SSN") = ljust(df[j]["Student SSN"], 9)
                /\ FieldOf(file[j + 1], "Date Degree, Credential, or Certificate Awarded")
                       = df[j]["Date Degree, Credential, or Certificate Awarded"]

\* a run has completed with two records whose students' government IDs are
\* in the other order than the records: the first is the record of an ID
\* written as it is, the second of an ID replaced by "NO SSN"
C12_Witness ==
    /\ pc = "done"
    /\ Len(df) = 2
    /\ df[1]["Student SSN"] = <<"1","2","3","4","5","6","7","8","9">>
    /\ df[2]["Student SSN"] = <<"N","O"," ","S","S","N">>
    /\ StrLess(GovernmentIdOf(df[2]["College Student ID"]),
               GovernmentIdOf(df[1]["College Student ID"]))
    /\ FieldOf(file[3], "Student SSN") = <<"N","O"," ","S","S","N"," "," "," ">>

\* C13: minors are ranked within each (student, graduation date): for every
\* student and graduation date with k minors, minor_data returns one row for
\* the pair, with Minor Course of Study 1..min(k,4) filled and the other
\* minor columns blank, also when the student has minors on other dates.
C13_RankedWithinStudentAndDate ==
    pc \notin {"create", "L279"} =>
        \A id \in {P1, P2} : \A date \in {D1, D2} :
            LET k == Cardinality(MinorsOn(id, date))
            IN  k > 0 =>
                   /\ Cardinality(PivotRows(id, date)) = 1
                   /\ \A j \in PivotRows(id, date) : \A r \in 1..4 :
                         (MinorCell(j, MinorCol(r)) # <<" ">>) <=> (r <= k)

\* content is the header line and then the data lines of the first k records,
\* fewer than the records there are, and nothing else
HeaderAndData(content, k) ==
    /\ k < Len(df)
    /\ Len(content) = k + 1
    /\ startswith(content[1], <<"D","H","1">>)
    /\ \A i \in 1..k :
          /\ startswith(content[i + 1], <<"D","D","1">>)
          /\ FieldOf(content[i + 1], "College Student ID")
                 = ljust(df[i]["College Student ID"], 20)

\* C14: when the run fails while the data section is being written, after k
\* of the N data lines, the file is left holding the header line and exactly
\* those k data lines, with no trailer line; and no step after the failure
\* changes the file (none writes a trailer, rewrites the header or removes
\* the file).
C14_FailureLeavesPartialFile ==
    [][/\ (pc = "data" /\ pc' = "failed") =>
             /\ fw.lw = Len(df) - Len(fw.rows)
             /\ HeaderAndData(file', fw.lw)
       /\ pc = "failed" => file' = file]_vars

\* the run has failed on the second of two records, with the header line and
\* the data line of the first record in the file
C14_Witness ==
    /\ pc = "failed"
    /\ Len(df) = 2
    /\ Len(file) = 2
    /\ startswith(file[1], <<"D","H","1">>)
    /\ startswith(file[2], <<"D","D","1">>)

=============================================================================
